---- MODULE Spec2Model ----
(***************************************************************************)
(* Model of build.py: the release pipeline that bumps the version, reads   *)
(* it back from the TOML file, logs into the registry, builds, pushes and  *)
(* removes the container image.  One action per statement of main(); the   *)
(* external tools (bump-my-version, the Docker engine) are the inputs,     *)
(* drawn from the outcomes they can produce.                               *)
(***************************************************************************)
EXTENDS Integers, Sequences, FiniteSets, TLC

VARIABLES environ, file, bumpsVersionFile, pc, checks, calls, log,
          current_version, exitCode, uncaught

vars == <<environ, file, bumpsVersionFile, pc, checks, calls, log,
          current_version, exitCode, uncaught>>

(* ---------------------------------------------------------------- bounds *)

\* Largest component of a version the version file starts with.
MaxComp == 2

(* ------------------------------------------------------------ Python bits *)

\* Optional values: None is the empty tuple, a value v is <<v>>.
None == <<>>

Some(v) == <<v>>

\* Exit status of a process that has not exited yet.
Running == -1

\* current_version before get_current_version has returned.
Unresolved == "<unresolved>"

\* No exception.
NoExc == ""

\* Class hierarchy of the exceptions the except clauses are matched against.
ExcParent ==
    [ImageNotFound     |-> "NotFound",
     NotFound          |-> "APIError",
     APIError          |-> "DockerException",
     BuildError        |-> "DockerException",
     DockerException   |-> "Exception",
     FileNotFoundError |-> "OSError",
     OSError           |-> "Exception",
     KeyError          |-> "LookupError",
     LookupError       |-> "Exception"]

RECURSIVE IsInstance(_, _)
IsInstance(exc, cls) ==
    IF exc = cls THEN TRUE
    ELSE IF exc \in DOMAIN ExcParent THEN IsInstance(ExcParent[exc], cls)
    ELSE FALSE

\* Index of the first except clause that matches exc, 0 when none does
\* (the exception propagates).
RECURSIVE CaughtFrom(_, _, _)
CaughtFrom(handlers, exc, i) ==
    IF i > Len(handlers) THEN 0
    ELSE IF IsInstance(exc, handlers[i]) THEN i
    ELSE CaughtFrom(handlers, exc, i + 1)

Caught(handlers, exc) == CaughtFrom(handlers, exc, 1)

(* ------------------------------------------------------- version strings *)

Digit == <<"0", "1", "2", "3", "4", "5", "6", "7", "8", "9">>

RECURSIVE NumStr(_)
NumStr(n) ==
    IF n < 10 THEN Digit[n + 1]
    ELSE NumStr(n \div 10) \o Digit[(n % 10) + 1]

VersionStr(v) == NumStr(v[1]) \o "." \o NumStr(v[2]) \o "." \o NumStr(v[3])

\* The versions bump-my-version can parse out of the file.
Parseable == (0..MaxComp) \X (0..MaxComp) \X (0..MaxComp)

IsVersion(s) == \E v \in Parseable : VersionStr(v) = s

ParseVersion(s) == CHOOSE v \in Parseable : VersionStr(v) = s

\* "bump patch": the third component goes up by one.
BumpPatch(s) ==
    LET v == ParseVersion(s) IN VersionStr(<<v[1], v[2], v[3] + 1>>)

(* ------------------------------------------------------------ environment *)

EnvNames ==
    {"VERSION_FILE", "PROJECT_NAME", "REGISTRY_USERNAME",
     "REGISTRY_PASSWORD", "REGISTRY_NAME"}

\* The values a set variable takes in the model (a set variable may be empty).
EnvValues(n) ==
    CASE n = "VERSION_FILE"      -> {".bumpversion.toml"}
      [] n = "PROJECT_NAME"      -> {"svc", ""}
      [] n = "REGISTRY_USERNAME" -> {"u"}
      [] n = "REGISTRY_PASSWORD" -> {"p"}
      [] n = "REGISTRY_NAME"     -> {"reg.example.com", "localhost:5000"}

AllEnvValues == UNION {EnvValues(n) : n \in EnvNames}

Environments ==
    {e \in [EnvNames -> {None} \cup {Some(v) : v \in AllEnvValues}] :
        \A n \in EnvNames : e[n] = None \/ e[n][1] \in EnvValues(n)}

\* os.getenv(name): None when the variable is not set.
getenv(n) == environ[n]

version_file == getenv("VERSION_FILE")

project_name == getenv("PROJECT_NAME")

registry_username == getenv("REGISTRY_USERNAME")

registry_password == getenv("REGISTRY_PASSWORD")

registry_name == getenv("REGISTRY_NAME")

(* ----------------------------------------------------------- version file *)

\* What VERSION_FILE holds: the file may not exist, may lack the
\* tool.bumpversion.current_version key, or holds some string under it.
FileMissing == [exists |-> FALSE, hasKey |-> FALSE, current_version |-> ""]

FileNoKey == [exists |-> TRUE, hasKey |-> FALSE, current_version |-> ""]

FileWith(s) == [exists |-> TRUE, hasKey |-> TRUE, current_version |-> s]

InitialVersions == {<<1, 2, p>> : p \in 0..MaxComp}

Files ==
    {FileMissing, FileNoKey, FileWith("")}
        \cup {FileWith(VersionStr(v)) : v \in InitialVersions}

(* ------------------------------------------------- the functions of build.py *)

\* What the bump-my-version process can do: exit 0, exit non-zero, or not be
\* startable at all (subprocess.run raises FileNotFoundError).
BumpOutcomes == {"exit0", "nonzero", "FileNotFoundError"}

\* The command is run without --config-file, so it rewrites its own default
\* configuration; that is VERSION_FILE only when bumpsVersionFile holds.
\* It can exit 0 on VERSION_FILE only if it finds a version there to bump.
BumpCanHappen(f, same, outcome) ==
    (outcome = "exit0" /\ same)
        => (f.exists /\ f.hasKey /\ IsVersion(f.current_version))

BumpWrites(f, same, outcome) ==
    IF outcome = "exit0" /\ same
    THEN FileWith(BumpPatch(f.current_version))
    ELSE f

\* subprocess.run(command) without check=True: the exit status is ignored.
bump_version(outcome) ==
    [raised |-> IF outcome \in {"exit0", "nonzero"} THEN NoExc ELSE outcome]

get_current_version(f) ==
    IF ~f.exists THEN [raised |-> "FileNotFoundError", value |-> Unresolved]
    ELSE IF ~f.hasKey THEN [raised |-> "KeyError", value |-> Unresolved]
    ELSE [raised |-> NoExc, value |-> f.current_version]

\* What each engine call can do: return ("ok") or raise one of these.
LoginOutcomes == {"ok", "APIError"}

BuildOutcomes == {"ok", "BuildError", "APIError"}

PushOutcomes == {"ok", "APIError", "NotFound"}

RemoveOutcomes == {"ok", "ImageNotFound", "APIError"}

PruneOutcomes == {"ok", "APIError"}

docker_login_handlers == <<"APIError">>

\* docker_login with an except clause that reports the error and returns
\* True all the same.
docker_login_returns_true(outcome) ==
    IF outcome = "ok"
    THEN [raised |-> NoExc, ret |-> TRUE,
          out |-> <<"Successfully logged into container registry.">>]
    ELSE [raised |-> NoExc, ret |-> TRUE,
          out |-> <<"An error occurred: " \o outcome>>]

docker_login(outcome) ==
    IF outcome = "ok"
    THEN [raised |-> NoExc, ret |-> TRUE,
          out |-> <<"Successfully logged into container registry.">>]
    ELSE IF Caught(docker_login_handlers, outcome) = 1
    THEN [raised |-> NoExc, ret |-> FALSE,
          out |-> <<"An error occurred: " \o outcome>>]
    ELSE [raised |-> outcome, ret |-> FALSE, out |-> <<>>]

\* build_image with the try/except of push_image around the build.
build_image_caught(image, outcome) ==
    LET announce == "Building container image: " \o image IN
    IF outcome = "ok"
    THEN [raised |-> NoExc,
          out |-> <<announce, "Image " \o image \o " build successfully!">>]
    ELSE [raised |-> NoExc,
          out |-> <<announce, "An error occurred while building the image: "
                                  \o outcome>>]

\* build_image has no try block: whatever the build raises leaves it.
build_image(image, outcome) ==
    LET announce == "Building container image: " \o image IN
    IF outcome = "ok"
    THEN [raised |-> NoExc,
          out |-> <<announce, "Image " \o image \o " build successfully!">>]
    ELSE [raised |-> outcome, out |-> <<announce>>]

\* push_image catching only the not-found subclass.
push_image_handlers_narrow == <<"NotFound">>

push_image_handlers == <<"APIError">>

push_image(image, outcome) ==
    IF outcome = "ok"
    THEN [raised |-> NoExc,
          out |-> <<"Image " \o image \o " successfully pushed.">>]
    ELSE IF Caught(push_image_handlers, outcome) = 1
    THEN [raised |-> NoExc,
          out |-> <<"An error occurred while pushing the image: " \o outcome>>]
    ELSE [raised |-> outcome, out |-> <<>>]

Call(op, arg, res) == [op |-> op, arg |-> arg, res |-> res]

\* remove_image without its second except clause.
remove_image_handlers_narrow == <<"ImageNotFound">>

remove_image_handlers == <<"ImageNotFound", "APIError">>

\* remove_image pruning whether or not remove returned.
remove_image_calls_always(image, rm, pr) ==
    <<Call("remove", image, rm), Call("prune", "dangling", pr)>>

\* The engine calls the try block of remove_image makes: prune is the
\* statement after remove, reached only if remove returned.
remove_image_calls(image, rm, pr) ==
    IF rm = "ok"
    THEN <<Call("remove", image, rm), Call("prune", "dangling", pr)>>
    ELSE <<Call("remove", image, rm)>>

remove_image(image, rm, pr) ==
    LET made == remove_image_calls(image, rm, pr)
        exc  == made[Len(made)].res
        h    == Caught(remove_image_handlers, exc)
    IN  IF exc = "ok"
        THEN [raised |-> NoExc, made |-> made,
              out |-> <<"Image " \o image \o " successfully removed.">>]
        ELSE IF h = 1
        THEN [raised |-> NoExc, made |-> made,
              out |-> <<"Image " \o image \o " not found.">>]
        ELSE IF h = 2
        THEN [raised |-> NoExc, made |-> made,
              out |-> <<"Error removing the image " \o image \o ": " \o exc>>]
        ELSE [raised |-> exc, made |-> made, out |-> <<>>]

(* ------------------------------------------------------------------ main *)

required_vars ==
    <<version_file, project_name, registry_username, registry_password,
      registry_name>>

\* all(...) written for any(...).
any_missing_all(rv) == \A i \in 1..Len(rv) : rv[i] = None

\* any(var is None for var in required_vars)
any_missing(rv) == \E i \in 1..Len(rv) : rv[i] = None

registry_url(name) == "https://" \o name \o "/"

\* The tag built from the registry URL instead of the registry name.
image_name_of_url(name, project, version) ==
    registry_url(name) \o project \o ":" \o version

image_name_of(name, project, version) ==
    name \o "/" \o project \o ":" \o version

\* main() reading the version file before it bumps the version.
MainSteps_read_first ==
    <<"config", "read", "bump", "login", "build", "push", "remove">>

\* main() building before it logs in.
MainSteps_build_first ==
    <<"config", "bump", "read", "build", "login", "push", "remove">>

\* The statements of main() in program order; pc names the one to run next.
MainSteps == <<"config", "bump", "read", "login", "build", "push", "remove">>

After(step) ==
    LET i == CHOOSE k \in 1..Len(MainSteps) : MainSteps[k] = step
    IN  IF i = Len(MainSteps) THEN "done" ELSE MainSteps[i + 1]

MissingMsg ==
    "Some required environment variables are missing. Please ensure all needed variables are set."

image_name == image_name_of(registry_name[1], project_name[1], current_version)

Init ==
    /\ environ \in Environments
    /\ file \in Files
    /\ bumpsVersionFile \in BOOLEAN
    /\ pc = "config"
    /\ checks = 0
    /\ calls = <<>>
    /\ log = <<>>
    /\ current_version = Unresolved
    /\ exitCode = Running
    /\ uncaught = NoExc

\* An exception leaves main(): traceback, exit status 1.
Propagate(exc) ==
    /\ pc' = "crashed"
    /\ uncaught' = exc
    /\ exitCode' = 1

\* sys.exit(1)
SysExit(code) ==
    /\ pc' = "exited"
    /\ exitCode' = code
    /\ UNCHANGED uncaught

Continue ==
    /\ pc' = After(pc)
    /\ exitCode' = IF After(pc) = "done" THEN 0 ELSE exitCode
    /\ UNCHANGED uncaught

LoadConfig ==
    /\ pc = "config"
    /\ checks' = checks + 1
    /\ IF any_missing(required_vars)
       THEN log' = Append(log, MissingMsg) /\ SysExit(1)
       ELSE log' = log /\ Continue
    /\ UNCHANGED <<environ, file, bumpsVersionFile, calls, current_version>>

BumpVersion ==
    /\ pc = "bump"
    /\ \E outcome \in BumpOutcomes :
        /\ BumpCanHappen(file, bumpsVersionFile, outcome)
        /\ calls' = Append(calls, Call("bump", "patch", outcome))
        /\ file' = BumpWrites(file, bumpsVersionFile, outcome)
        /\ LET r == bump_version(outcome) IN
           IF r.raised # NoExc THEN Propagate(r.raised) ELSE Continue
    /\ UNCHANGED <<environ, bumpsVersionFile, checks, log, current_version>>

GetCurrentVersion ==
    /\ pc = "read"
    /\ LET r == get_current_version(file) IN
        /\ calls' = Append(calls,
              Call("read", version_file[1],
                   IF r.raised # NoExc THEN r.raised ELSE "ok"))
        /\ IF r.raised # NoExc
           THEN /\ Propagate(r.raised)
                /\ UNCHANGED <<log, current_version>>
           ELSE /\ current_version' = r.value
                /\ log' = Append(log, "Current version: " \o r.value)
                /\ Continue
    /\ UNCHANGED <<environ, file, bumpsVersionFile, checks>>

DockerLogin ==
    /\ pc = "login"
    /\ \E outcome \in LoginOutcomes :
        LET r == docker_login(outcome) IN
        /\ calls' = Append(calls,
              Call("login", registry_url(registry_name[1]), outcome))
        /\ log' = log \o r.out
        /\ IF r.raised # NoExc THEN Propagate(r.raised)
           ELSE IF ~r.ret THEN SysExit(1)
           ELSE Continue
    /\ UNCHANGED <<environ, file, bumpsVersionFile, checks, current_version>>

BuildImage ==
    /\ pc = "build"
    /\ \E outcome \in BuildOutcomes :
        LET r == build_image(image_name, outcome) IN
        /\ calls' = Append(calls, Call("build", image_name, outcome))
        /\ log' = log \o r.out
        /\ IF r.raised # NoExc THEN Propagate(r.raised) ELSE Continue
    /\ UNCHANGED <<environ, file, bumpsVersionFile, checks, current_version>>

PushImage ==
    /\ pc = "push"
    /\ \E outcome \in PushOutcomes :
        LET r == push_image(image_name, outcome) IN
        /\ calls' = Append(calls, Call("push", image_name, outcome))
        /\ log' = log \o r.out
        /\ IF r.raised # NoExc THEN Propagate(r.raised) ELSE Continue
    /\ UNCHANGED <<environ, file, bumpsVersionFile, checks, current_version>>

RemoveImage ==
    /\ pc = "remove"
    /\ \E rm \in RemoveOutcomes, pr \in PruneOutcomes :
        LET r == remove_image(image_name, rm, pr) IN
        /\ calls' = calls \o r.made
        /\ log' = log \o r.out
        /\ IF r.raised # NoExc THEN Propagate(r.raised) ELSE Continue
    /\ UNCHANGED <<environ, file, bumpsVersionFile, checks, current_version>>

Next ==
    \/ LoadConfig
    \/ BumpVersion
    \/ GetCurrentVersion
    \/ DockerLogin
    \/ BuildImage
    \/ PushImage
    \/ RemoveImage

Spec == Init /\ [][Next]_vars

(* ---------------------------------------------------------------- claims *)

\* The positions in calls of the calls of one operation.
Made(op) == {i \in DOMAIN calls : calls[i].op = op}

LastLog == log[Len(log)]

\* Some required variable is unset in the environment main() starts in.
AnyUnset == \E n \in EnvNames : environ[n] = None

\* C1: a run with one of the five required variables unset exits with code 1
\* after the configuration check and attempts no operation: no bump, no read
\* of the version file, no login, build, push, remove or prune.
C1_MissingConfigExitsWithoutOperations ==
    (AnyUnset /\ pc # "config")
        => /\ pc = "exited"
           /\ exitCode = 1
           /\ uncaught = NoExc
           /\ calls = <<>>
           /\ log = <<MissingMsg>>

C1_Witness ==
    /\ environ["REGISTRY_NAME"] = None
    /\ environ["PROJECT_NAME"] = Some("svc")
    /\ checks = 1
    /\ pc = "exited"

\* C2: a login the engine rejects with an API error is reported, the process
\* exits with code 1, and the login is the last call of the run: no build,
\* push, remove or prune follows it.
C2_LoginRejectedExits ==
    \A i \in Made("login") :
        IsInstance(calls[i].res, "APIError")
            => /\ i = Len(calls)
               /\ pc = "exited"
               /\ exitCode = 1
               /\ log # <<>>
               /\ LastLog = "An error occurred: " \o calls[i].res
               /\ Made("build") \cup Made("push") \cup Made("remove")
                      \cup Made("prune") = {}

C2_Witness ==
    /\ pc = "exited"
    /\ \E i \in Made("login") : calls[i].res = "APIError"

InLog(msg) == \E k \in DOMAIN log : log[k] = msg

\* C3: once push has returned, whether it succeeded or failed, cleanup of the
\* pushed tag is attempted next: the tagged image is removed, and the dangling
\* images are pruned when that remove returns; a failed push is logged.
C3_CleanupFollowsPush ==
    \A i \in Made("push") :
        /\ calls[i].res # "ok"
              => InLog("An error occurred while pushing the image: "
                          \o calls[i].res)
        /\ \/ pc = "remove" /\ i = Len(calls)
           \/ /\ i + 1 \in Made("remove")
              /\ calls[i + 1].arg = calls[i].arg
              /\ calls[i + 1].res = "ok" <=> i + 2 \in Made("prune")

C3_Witness ==
    /\ pc = "done"
    /\ \E i \in Made("push") :
          /\ calls[i].res = "APIError"
          /\ i + 1 \in Made("remove")
          /\ i + 2 \in Made("prune")

\* C4: in a run whose configuration check passed the bump command is invoked
\* exactly once, it has returned before the version file is read, and it is
\* never invoked again.
C4_BumpOnceBeforeRead ==
    /\ Cardinality(Made("bump")) <= 1
    /\ \A i \in Made("read") : \E j \in Made("bump") : j < i
    /\ (~AnyUnset /\ pc \notin {"config", "bump"})
          => Cardinality(Made("bump")) = 1

C4_Witness ==
    /\ Made("read") # {}
    /\ \E j \in Made("bump") : calls[j].res = "nonzero"

\* The tag the specification prescribes, from the environment and from what
\* the version file holds.
ExpectedTag ==
    environ["REGISTRY_NAME"][1] \o "/" \o environ["PROJECT_NAME"][1]
        \o ":" \o file.current_version

\* C5: the tag handed to build, push and remove is
\* "<registryHost>/<projectName>:<version>", version being the
\* current_version the version file holds after the bump.
C5_ImageTag ==
    \A i \in Made("build") \cup Made("push") \cup Made("remove") :
        /\ calls[i].arg = ExpectedTag
        /\ \E j \in Made("bump") : j < i

C5_Witness ==
    /\ \E j \in Made("bump") : calls[j].res = "exit0"
    /\ Made("build") # {} /\ Made("push") # {}
    /\ \E i \in Made("remove") : calls[i].arg = "reg.example.com/svc:1.2.3"

\* C6: cleanup never raises for an engine API error: when remove finds no
\* such image, or remove or prune fails with another API error, the
\* condition is logged, remove_image returns and the run ends with code 0.
C6_CleanupNeverRaises ==
    Made("remove") # {}
        => LET last == calls[Len(calls)] IN
           /\ pc = "done"
           /\ exitCode = 0
           /\ uncaught = NoExc
           /\ last.op \in {"remove", "prune"}
           /\ last.res = "ImageNotFound"
                 => LastLog = "Image " \o image_name \o " not found."
           /\ last.res = "APIError"
                 => LastLog = "Error removing the image " \o image_name
                                  \o ": APIError"

C6_Witness ==
    /\ pc = "done"
    /\ calls[Len(calls)].op = "prune"
    /\ calls[Len(calls)].res = "APIError"

\* C7: the pipeline never reaches login, build or push with an empty or
\* unresolved version, whatever the bump command did and whatever the
\* version file holds.
C7_VersionNonEmpty ==
    (Made("login") \cup Made("build") \cup Made("push") # {})
        => current_version \notin {"", Unresolved}

\* C8: a build that raises is fatal: the exception leaves main(), the process
\* terminates, and no push, remove or prune is made after it.
C8_BuildFailureFatal ==
    \A i \in Made("build") :
        calls[i].res # "ok"
            => /\ i = Len(calls)
               /\ pc = "crashed"
               /\ uncaught = calls[i].res
               /\ exitCode = 1
               /\ Made("push") \cup Made("remove") \cup Made("prune") = {}

C8_Witness ==
    /\ pc = "crashed"
    /\ \E i \in Made("build") : calls[i].res = "BuildError"

\* The operations in the order the pipeline performs them.
Order == <<"bump", "read", "login", "build", "push", "remove", "prune">>

\* The call returned to its caller in a way that lets the pipeline go on.
Returned(c) ==
    \/ c.res = "ok"
    \/ c.op = "bump" /\ c.res \in {"exit0", "nonzero"}
    \/ c.op = "push" /\ IsInstance(c.res, "APIError")

\* C9: the pipeline is linear: config check, bump, read, login, build, push,
\* cleanup, each at most once, none before the configuration check, and none
\* unless the one before it returned.
C9_LinearPipeline ==
    /\ checks <= 1
    /\ calls # <<>> => checks = 1 /\ ~AnyUnset
    /\ Len(calls) <= Len(Order)
    /\ \A i \in DOMAIN calls :
          /\ calls[i].op = Order[i]
          /\ i > 1 => Returned(calls[i - 1])

C9_Witness ==
    /\ pc = "done"
    /\ Len(calls) = Len(Order)

\* C10: prune is invoked only after the remove of the tagged image succeeded,
\* never after a remove that raised, and at most once.
C10_PruneOnlyAfterRemove ==
    /\ Cardinality(Made("prune")) <= 1
    /\ \A i \in Made("prune") :
          i - 1 \in Made("remove") /\ calls[i - 1].res = "ok"
    /\ (\E i \in Made("remove") : calls[i].res # "ok") => Made("prune") = {}

C10_Witness ==
    /\ pc = "done"
    /\ \E i \in Made("remove") : calls[i].res = "ImageNotFound"
    /\ Made("prune") = {}

====
